---- MODULE Spec2Model ----
(***************************************************************************)
(* LayerEdge bot (src/main.js): the retry-capable request executor         *)
(* RequestHandler.makeRequest, the wallet session LayerEdgeConnection and  *)
(* the orchestration loop run().                                           *)
(*                                                                         *)
(* Specifications:                                                         *)
(*   Spec      the program: run() from process start                       *)
(*   SpecFair  Spec with the event loop's progress                          *)
(*   SpecExecFair  SpecExec with the event loop's progress                  *)
(*   SpecExec  RequestHandler.makeRequest invoked directly with any        *)
(*             retries in 1..MaxRetries and any backoffMs in BackoffChoices*)
(***************************************************************************)
EXTENDS Integers, Sequences, FiniteSets, Bags, TLC

\* ------------------------------------------------------------------ bounds
MaxRetries == 4
MaxWallets == 3
MaxProxies == 2
MaxInvocations == 2

\* --------------------------------------------------------------- numbers
\* A JS number of the form m * 2^e2 * 3^e3 * 5^e5 with m coprime to 30 (or
\* m = 0), kept exactly.  Every quantity the program computes with (2000,
\* 1.5, 1000, 2, 5, 60 * 60 and their products and quotients) has this form,
\* and for the program's own parameters (30 attempts, 2000 ms) the IEEE
\* double results are exact too.
Zero == [m |-> 0, e2 |-> 0, e3 |-> 0, e5 |-> 0]

RECURSIVE Strip(_, _)
Strip(n, p) == IF n % p = 0 THEN 1 + Strip(n \div p, p) ELSE 0

Norm(x) ==
    IF x.m = 0 THEN Zero
    ELSE LET a == Strip(x.m, 2)
             b == Strip(x.m, 3)
             c == Strip(x.m, 5)
         IN  [m  |-> x.m \div ((2 ^ a) * (3 ^ b) * (5 ^ c)),
              e2 |-> x.e2 + a, e3 |-> x.e3 + b, e5 |-> x.e5 + c]

FromInt(n) == Norm([m |-> n, e2 |-> 0, e3 |-> 0, e5 |-> 0])

\* a * b
Mul(a, b) ==
    Norm([m |-> a.m * b.m, e2 |-> a.e2 + b.e2, e3 |-> a.e3 + b.e3, e5 |-> a.e5 + b.e5])

\* a / b, for a divisor whose mantissa is 1 (1000 = 2^3 * 5^3, 2 = 2^1)
Div(a, b) ==
    Norm([m |-> a.m, e2 |-> a.e2 - b.e2, e3 |-> a.e3 - b.e3, e5 |-> a.e5 - b.e5])

\* the literal 1.5
OnePointFive == Div(FromInt(3), FromInt(2))

\* Math.pow(x, n) for an integer n >= 0
RECURSIVE MathPow(_, _)
MathPow(x, n) == IF n = 0 THEN FromInt(1) ELSE Mul(x, MathPow(x, n - 1))

\* delay without the conversion to milliseconds
delayNoScale(ms) == ms

\* delay(ms): the argument is in seconds, the timer is armed with ms * 1000
delay(ms) == Mul(ms, FromInt(1000))

\* ------------------------------------------------------------- transport
\* What one HTTP exchange can produce before axios classifies it.
StatusChoices == {200, 404, 500, 503}

\* error.response?.status of an error without a response (network failure,
\* timeout)
Undefined == -1

\* Shapes of response.data.  present: response.data is truthy; nested is
\* response.data.data; startTimestamp and valid are fields of the nested
\* object; statusCode = 0 and message = "absent" stand for a missing field.
Body(present, nested, startTimestamp, valid, statusCode, message) ==
    [present |-> present, nested |-> nested, startTimestamp |-> startTimestamp,
     valid |-> valid, statusCode |-> statusCode, message |-> message]

BodyChoices ==
    { Body(FALSE, "absent", "absent", FALSE, 0, "absent"),
      Body(TRUE, "absent", "absent", FALSE, 0, "absent"),
      Body(TRUE, "object", "absent", FALSE, 0, "absent"),
      Body(TRUE, "object", "null", FALSE, 0, "absent"),
      Body(TRUE, "object", "value", TRUE, 0, "node action executed successfully"),
      Body(TRUE, "absent", "absent", FALSE, 405, "claim after 12 hours!"),
      Body(TRUE, "absent", "absent", FALSE, 405, "already claimed"),
      Body(TRUE, "absent", "absent", FALSE, 405, "absent") }

Null == [kind |-> "null"]
Response(status, data) == [kind |-> "response", status |-> status, data |-> data]

\* ----------------------------------------------------------------- state
VARIABLES
    wallets,      \* content of wallets.json: the kind of each entry
    proxies,      \* lines of proxy.txt
    pc,           \* position of run()
    walletIdx,    \* i of run()'s for loop
    proxy,        \* proxy selected for the current wallet
    agent,        \* httpsAgent of the current connection
    progress,     \* last status given to logger.progress for the wallet
    lastOp,       \* operation that returned last
    ret,          \* what it returned: "true", "false" or "throw"
    rpc,          \* position of RequestHandler.makeRequest
    retries,      \* its parameter retries
    backoffMs,    \* its parameter backoffMs
    i,            \* its loop variable
    status,       \* HTTP status of the exchange that just settled
    timer,        \* milliseconds of the pending setTimeout
    result,       \* its return value
    delivered,    \* the response axios resolved with
    attempts,     \* axios calls issued by this invocation
    errors,       \* of which rejected
    waits,        \* delays awaited by this invocation
    kinds,        \* rejections so far: "none", "all500", "allOther", "mixed"
    exitCode,     \* argument of process.exit once it was called
    inflight,     \* bag of the axios calls issued and not settled: [wallet, op] of each
    invocations   \* direct invocations of RequestHandler.makeRequest made so far

runVars == <<wallets, proxies, pc, walletIdx, proxy, agent, progress, lastOp, ret, exitCode>>
reqVars == <<rpc, retries, backoffMs, i, status, timer, result, delivered, attempts, errors, waits, kinds>>
vars == <<runVars, reqVars, inflight, invocations>>

\* exitCode while the process runs
NotExited == -1

\* status while no exchange has settled
NotSettled == -2

\* -------------------------------------------- RequestHandler.makeRequest
\* The invocation as a record: its parameters and locals, and the counters
\* kept about it
Invocation ==
    [rpc |-> rpc, retries |-> retries, backoffMs |-> backoffMs, i |-> i,
     status |-> status, timer |-> timer, result |-> result, delivered |-> delivered,
     attempts |-> attempts, errors |-> errors, waits |-> waits, kinds |-> kinds]

\* No invocation: before the first call and after a return
NoInvocation ==
    [rpc |-> "idle", retries |-> 0, backoffMs |-> 0, i |-> 0,
     status |-> NotSettled, timer |-> Zero, result |-> Null, delivered |-> Null,
     attempts |-> 0, errors |-> 0, waits |-> 0, kinds |-> "none"]

\* a retry that starts the loop again
NextIterationRestarts(q) ==
    [q EXCEPT !.i = 0, !.rpc = "request", !.attempts = 1]

\* i++ and the loop condition: the next axios call, or return null after
\* the loop
NextIteration(q) ==
    IF q.i + 1 < q.retries
    THEN [q EXCEPT !.i = q.i + 1, !.rpc = "request", !.attempts = q.attempts + 1]
    ELSE [q EXCEPT !.i = q.i + 1, !.rpc = "returned", !.result = Null]

\* an entry that goes on from the counters of the invocation before
EnterMakeRequestResumes(r, b) ==
    [Invocation EXCEPT !.retries = r, !.backoffMs = b, !.rpc = "request",
                       !.attempts = attempts + 1]

\* Entry of makeRequest(config, r, b): the for loop starts and, if it has an
\* iteration, issues the first axios call
EnterMakeRequest(r, b) ==
    IF 0 < r
    THEN [NoInvocation EXCEPT !.retries = r, !.backoffMs = b, !.rpc = "request", !.attempts = 1]
    ELSE [NoInvocation EXCEPT !.retries = r, !.backoffMs = b, !.rpc = "returned"]

\* try block after await axios(config) resolved, with the return forgotten
TryNoReturn(q, response) ==
    NextIteration([q EXCEPT !.status = response.status, !.delivered = response])

\* try block after await axios(config) resolved: return response
Try(q, response) ==
    [q EXCEPT !.status = response.status, !.delivered = response,
              !.rpc = "returned", !.result = response]

\* validateStatus refusing 4xx
validateStatus4xx(s) == s < 400

\* validateStatus accepting 500
validateStatus500(s) == s <= 500

\* validateStatus of the axios configuration
validateStatus(s) == s < 500

\* kinds after one more rejection with status s
NextKinds(q, s) ==
    LET k == IF s = 500 THEN "all500" ELSE "allOther"
    IN  IF q.kinds = "none" \/ q.kinds = k THEN k ELSE "mixed"

\* isLastRetry never true
isLastRetryNever(q) == q.i = q.retries

\* isLastRetry one attempt early
isLastRetryEarly(q) == q.i >= q.retries - 2

\* const isLastRetry = i === retries - 1
isLastRetry(q) == q.i = q.retries - 1

\* a backoff whose exponent counts the 500s only while nothing else failed
waitTimeRestarts(q) ==
    Mul(FromInt(q.backoffMs),
        MathPow(OnePointFive, IF q.kinds \in {"none", "all500"} THEN q.i ELSE 0))

\* const waitTime = backoffMs * Math.pow(1.5, i)
waitTime(q) == Mul(FromInt(q.backoffMs), MathPow(OnePointFive, q.i))

\* the fixed wait taken from backoffMs
fixedWaitBackoff(q) == delay(Div(FromInt(q.backoffMs), FromInt(1000)))

\* await delay(2)
fixedWait(q) == delay(FromInt(2))

\* every status from 500 up taken as the server error
isServerErrorAny5xx(s) == s >= 500

\* if (status === 500)
isServerError(s) == s = 500

\* The catch block, for an error whose error.response?.status is s
Catch(q, s) ==
    LET e == [q EXCEPT !.status = s, !.delivered = Null,
                       !.errors = q.errors + 1, !.kinds = NextKinds(q, s)]
    IN  IF isServerError(s)
        THEN IF isLastRetry(q)
             THEN \* break, then return null after the loop
                  [e EXCEPT !.rpc = "returned", !.result = Null]
             ELSE [e EXCEPT !.rpc = "delay", !.waits = q.waits + 1,
                            !.timer = delay(Div(waitTime(q), FromInt(1000)))]
        ELSE IF isLastRetry(q)
             THEN \* return null
                  [e EXCEPT !.rpc = "returned", !.result = Null]
             ELSE [e EXCEPT !.rpc = "delay", !.waits = q.waits + 1,
                            !.timer = fixedWait(q)]

\* The awaited delay elapsed: continue (500 branch) or the end of the catch
\* block, then the next iteration
AfterDelay(q) ==
    NextIteration([q EXCEPT !.status = NotSettled, !.timer = Zero])

\* The locals of an invocation end with it: under run() a return leaves the
\* returned value only; an invocation made directly keeps its last counters
Settle(q) ==
    IF q.rpc = "returned" /\ pc # "direct"
    THEN [NoInvocation EXCEPT !.rpc = "returned", !.result = q.result]
    ELSE q

\* the axios call of the operation run() is in
Current == [wallet |-> walletIdx, op |-> pc]

\* the axios call the invocation q has issued and awaits, if any
Pending(q) == IF q.rpc = "request" THEN SetToBag({Current}) ELSE EmptyBag

\* inflight once the awaited axios call has settled and the invocation is in q
AfterSettle(q) == (inflight (-) SetToBag({Current})) (+) Pending(q)

\* inflight once the invocation has moved on to q without axios settling
AfterResume(q) == inflight (+) Pending(q)

Commit(q) ==
    /\ rpc' = q.rpc
    /\ retries' = q.retries
    /\ backoffMs' = q.backoffMs
    /\ i' = q.i
    /\ status' = q.status
    /\ timer' = q.timer
    /\ result' = q.result
    /\ delivered' = q.delivered
    /\ attempts' = q.attempts
    /\ errors' = q.errors
    /\ waits' = q.waits
    /\ kinds' = q.kinds

\* await axios(config) resolves
AxiosResolves ==
    /\ rpc = "request"
    /\ \E s \in StatusChoices, data \in BodyChoices :
         /\ validateStatus(s)
         /\ Commit(Settle(Try(Invocation, Response(s, data))))
         /\ inflight' = AfterSettle(Settle(Try(Invocation, Response(s, data))))
    /\ UNCHANGED <<runVars, invocations>>

\* await axios(config) rejects with a response that validateStatus refused
AxiosRejectsStatus ==
    /\ rpc = "request"
    /\ \E s \in StatusChoices :
         /\ ~validateStatus(s)
         /\ Commit(Settle(Catch(Invocation, s)))
         /\ inflight' = AfterSettle(Settle(Catch(Invocation, s)))
    /\ UNCHANGED <<runVars, invocations>>

\* await axios(config) rejects without a response (network failure, timeout)
AxiosRejectsNoResponse ==
    /\ rpc = "request"
    /\ Commit(Settle(Catch(Invocation, Undefined)))
    /\ inflight' = AfterSettle(Settle(Catch(Invocation, Undefined)))
    /\ UNCHANGED <<runVars, invocations>>

\* the delay awaited in the catch block elapses
DelayElapses ==
    /\ rpc = "delay"
    /\ Commit(Settle(AfterDelay(Invocation)))
    /\ inflight' = AfterResume(Settle(AfterDelay(Invocation)))
    /\ UNCHANGED <<runVars, invocations>>

\* ------------------------------------------------------- wallet session
\* A string as the sequence of its characters
Chars(str) ==
    CASE str = "http://" -> <<"h", "t", "t", "p", ":", "/", "/">>
      [] str = "socks4://" -> <<"s", "o", "c", "k", "s", "4", ":", "/", "/">>
      [] str = "socks5://" -> <<"s", "o", "c", "k", "s", "5", ":", "/", "/">>
      [] str = "https://" -> <<"h", "t", "t", "p", "s", ":", "/", "/">>

\* String.prototype.startsWith
startsWith(str, prefix) ==
    /\ Len(str) >= Len(prefix)
    /\ SubSeq(str, 1, Len(prefix)) = prefix

\* null as the value of proxy; a line of proxy.txt is never empty (readFile
\* filters the empty lines out)
NullProxy == <<>>

\* a proxy.txt: a supported scheme, an unsupported one, the socks schemes
ProxyFile ==
    << Chars("http://") \o <<"a">>,
       Chars("https://") \o <<"b">>,
       Chars("socks5://") \o <<"c">>,
       Chars("socks4://") \o <<"d">> >>

\* newAgent that takes every scheme starting with http
newAgentAnyHttp(p) ==
    IF p # NullProxy
    THEN IF startsWith(p, <<"h", "t", "t", "p">>) THEN "HttpsProxyAgent"
         ELSE IF startsWith(p, Chars("socks4://")) \/ startsWith(p, Chars("socks5://"))
              THEN "SocksProxyAgent"
              ELSE "null"
    ELSE "null"

\* newAgent(proxy)
newAgent(p) ==
    IF p # NullProxy
    THEN IF startsWith(p, Chars("http://")) THEN "HttpsProxyAgent"
         ELSE IF startsWith(p, Chars("socks4://")) \/ startsWith(p, Chars("socks5://"))
              THEN "SocksProxyAgent"
              ELSE "null"
    ELSE "null"

\* one attempt more than the constructor sets
retryCountOneMore == 30 + 1

\* this.retryCount = 30
retryCount == 30

\* default of the parameter backoffMs
defaultBackoffMs == 2000

\* the operations that sign a message before their request
Signs(op) == op \in {"dailyCheckIn", "connectNode", "stopNode"}

\* Each operation after its await this.makeRequest(...), as a function of the
\* response: "true", "false", or "throw" when it raises a TypeError.
checkInvite(response) ==
    IF response # Null /\ response.data.present
    THEN IF response.data.nested # "object" THEN "throw"
         ELSE IF response.data.valid = TRUE THEN "true" ELSE "false"
    ELSE "false"

registerWallet(response) ==
    IF response # Null /\ response.data.present THEN "true" ELSE "false"

connectNode(response) ==
    IF /\ response # Null
       /\ response.data.present
       /\ response.data.message = "node action executed successfully"
    THEN "true" ELSE "false"

stopNode(response) ==
    IF response # Null /\ response.data.present THEN "true" ELSE "false"

\* dailyCheckIn is wrapped in try/catch: a TypeError of message.match on a
\* missing message is caught and gives false
dailyCheckIn(response) ==
    IF response # Null /\ response.data.present
    THEN IF response.data.statusCode # 0 /\ response.data.statusCode = 405
         THEN IF response.data.message = "absent" THEN "false" ELSE "true"
         ELSE "true"
    ELSE "false"

\* undefined !== null is true: a nested object without startTimestamp counts
\* as running; a missing nested object raises
checkNodeStatus(response) ==
    IF response # Null /\ response.data.present
    THEN IF response.data.nested # "object" THEN "throw"
         ELSE IF response.data.startTimestamp # "null" THEN "true" ELSE "false"
    ELSE "false"

checkNodePoints(response) ==
    IF response # Null /\ response.data.present THEN "true" ELSE "false"

Continuation(op, response) ==
    CASE op = "dailyCheckIn" -> dailyCheckIn(response)
      [] op = "checkNodeStatus" -> checkNodeStatus(response)
      [] op = "stopNode" -> stopNode(response)
      [] op = "connectNode" -> connectNode(response)
      [] op = "checkNodePoints" -> checkNodePoints(response)

Ops == {"dailyCheckIn", "checkNodeStatus", "stopNode", "connectNode", "checkNodePoints"}

\* ------------------------------------------------------------------ run()
\* entries wallets.json can hold: a wallet with a valid key, a wallet whose
\* privateKey new Wallet() rejects, and null
WalletChoices == {"ok", "badKey", "null"}

SeqsUpTo(S, n) == UNION { [1..k -> S] : k \in 0..n }

\* proxy.txt holds the first lines of ProxyFile, at most MaxProxies of them
ProxyFiles ==
    { SubSeq(ProxyFile, 1, k) : k \in 0..(IF MaxProxies < Len(ProxyFile) THEN MaxProxies ELSE Len(ProxyFile)) }

Init ==
    /\ wallets \in SeqsUpTo(WalletChoices, MaxWallets)
    /\ proxies \in ProxyFiles
    /\ pc = "start"
    /\ walletIdx = 0
    /\ proxy = NullProxy
    /\ agent = "none"
    /\ progress = "none"
    /\ lastOp = "none"
    /\ ret = "none"
    /\ rpc = "idle"
    /\ retries = 0
    /\ backoffMs = 0
    /\ i = 0
    /\ status = NotSettled
    /\ timer = Zero
    /\ result = Null
    /\ delivered = Null
    /\ attempts = 0
    /\ errors = 0
    /\ waits = 0
    /\ kinds = "none"
    /\ exitCode = NotExited
    /\ inflight = EmptyBag
    /\ invocations = 0

\* proxy selection by the 1-based position of the wallet
SelectProxyOneBased(idx) ==
    IF Len(proxies) = 0 THEN NullProxy
    ELSE proxies[((idx + 1) % Len(proxies)) + 1]

\* const proxy = proxies[i % proxies.length] || null
SelectProxy(idx) ==
    IF Len(proxies) = 0 THEN NullProxy
    ELSE proxies[(idx % Len(proxies)) + 1]

\* httpsAgent of this.axiosConfig: set only when this.proxy is truthy
httpsAgent(p) == IF p # NullProxy THEN newAgent(p) ELSE "none"

\* startup that enters the loop whatever the wallet list holds
StartupNoCheck ==
    /\ pc = "start"
    /\ pc' = "for"
    /\ UNCHANGED <<invocations, wallets, proxies, walletIdx, proxy, agent, progress, lastOp, ret, exitCode>>
    /\ UNCHANGED <<reqVars, inflight>>

\* startup for which an empty proxy list is as fatal as an empty wallet list
StartupProxiesFatal ==
    /\ pc = "start"
    /\ pc' = IF Len(wallets) = 0 \/ Len(proxies) = 0 THEN "exit" ELSE "for"
    /\ exitCode' = IF Len(wallets) = 0 \/ Len(proxies) = 0 THEN 1 ELSE exitCode
    /\ UNCHANGED <<invocations, wallets, proxies, walletIdx, proxy, agent, progress, lastOp, ret>>
    /\ UNCHANGED <<reqVars, inflight>>

\* readFile('proxy.txt'), readWallets(); an empty proxy list is a warning, an
\* empty wallet list throws into the outer catch, which exits
Startup ==
    /\ pc = "start"
    /\ pc' = IF Len(wallets) = 0 THEN "exit" ELSE "for"
    /\ exitCode' = IF Len(wallets) = 0 THEN 1 ELSE exitCode
    /\ UNCHANGED <<invocations, wallets, proxies, walletIdx, proxy, agent, progress, lastOp, ret>>
    /\ UNCHANGED <<reqVars, inflight>>

\* a catch that gives the cycle up
WalletFailedAborts ==
    /\ progress' = "failed"
    /\ pc' = "delay3600"
    /\ Commit([NoInvocation EXCEPT !.result = result, !.timer = delay(FromInt(60 * 60))])

\* a catch that waits and leaves the wallet unmarked
WalletFailedUnmarked ==
    /\ progress' = progress
    /\ pc' = "delay5"
    /\ Commit([NoInvocation EXCEPT !.result = result, !.timer = delay(FromInt(5))])

\* catch of the wallet's try block: progress failed, await delay(5)
WalletFailed ==
    /\ progress' = "failed"
    /\ pc' = "delay5"
    /\ Commit([NoInvocation EXCEPT !.result = result, !.timer = delay(FromInt(5))])

\* Head of the for loop: the next wallet up to its first await, or the end
\* of the cycle
ForWallet ==
    /\ pc = "for"
    /\ lastOp' = "none"
    /\ ret' = "none"
    /\ IF walletIdx < Len(wallets)
       THEN /\ proxy' = SelectProxy(walletIdx)
            /\ CASE wallets[walletIdx + 1] = "null" ->
                      \* destructuring null, outside the wallet's try: the
                      \* outer catch exits
                      /\ pc' = "exit"
                      /\ exitCode' = 1
                      /\ progress' = "none"
                      /\ Commit(NoInvocation)
                      /\ UNCHANGED agent
                 [] wallets[walletIdx + 1] = "badKey" ->
                      \* new Wallet(privateKey) throws in the constructor
                      /\ agent' = httpsAgent(SelectProxy(walletIdx))
                      /\ progress' = "failed"
                      /\ pc' = "delay5"
                      /\ Commit([NoInvocation EXCEPT !.timer = delay(FromInt(5))])
                      /\ UNCHANGED exitCode
                 [] wallets[walletIdx + 1] = "ok" ->
                      /\ agent' = httpsAgent(SelectProxy(walletIdx))
                      /\ progress' = "processing"
                      /\ pc' = "dailyCheckIn"
                      /\ Commit(NoInvocation)
                      /\ UNCHANGED exitCode
       ELSE /\ pc' = "delay3600"
            /\ progress' = "none"
            /\ Commit([NoInvocation EXCEPT !.timer = delay(FromInt(60 * 60))])
            /\ UNCHANGED <<proxy, agent, exitCode>>
    /\ UNCHANGED <<invocations, wallets, proxies, walletIdx, inflight>>

\* run() never waits for the makeRequest it called
SuspendedNever == FALSE

\* run() is suspended at the await of a makeRequest it has called
Suspended == rpc # "idle"

\* An operation up to its await this.makeRequest(...): the signature, then
\* RequestHandler.makeRequest(finalConfig, this.retryCount)
OpStart(op) ==
    /\ pc = op
    /\ ~Suspended
    /\ \E signed \in (IF Signs(op) THEN BOOLEAN ELSE {TRUE}) :
         IF ~signed
         THEN /\ lastOp' = op
              /\ IF op = "dailyCheckIn"
                 THEN \* caught inside dailyCheckIn: return false
                      /\ ret' = "false"
                      /\ pc' = "checkNodeStatus"
                      /\ Commit(NoInvocation)
                      /\ UNCHANGED <<progress, inflight>>
                 ELSE /\ ret' = "throw"
                      /\ progress' = "failed"
                      /\ pc' = "delay5"
                      /\ Commit([NoInvocation EXCEPT !.timer = delay(FromInt(5))])
                      /\ UNCHANGED inflight
         ELSE /\ Commit(EnterMakeRequest(retryCount, defaultBackoffMs))
              /\ inflight' = AfterResume(EnterMakeRequest(retryCount, defaultBackoffMs))
              /\ lastOp' = "none"
              /\ ret' = "none"
              /\ UNCHANGED <<pc, progress>>
    /\ UNCHANGED <<invocations, wallets, proxies, walletIdx, proxy, agent, exitCode>>

\* a sequence in which stopping the node replaces connecting it
AfterOpSkipConnect(op, r) ==
    CASE op = "dailyCheckIn" -> "checkNodeStatus"
      [] op = "checkNodeStatus" -> IF r = "true" THEN "stopNode" ELSE "connectNode"
      [] op = "stopNode" -> "checkNodePoints"
      [] op = "connectNode" -> "checkNodePoints"
      [] op = "checkNodePoints" -> "for"

\* a sequence that gives the wallet up when connecting returned false
AfterOpStopsOnFalse(op, r) ==
    CASE op = "dailyCheckIn" -> "checkNodeStatus"
      [] op = "checkNodeStatus" -> IF r = "true" THEN "stopNode" ELSE "connectNode"
      [] op = "stopNode" -> "connectNode"
      [] op = "connectNode" -> IF r = "true" THEN "checkNodePoints" ELSE "for"
      [] op = "checkNodePoints" -> "for"

\* where run() goes after op returned r
AfterOp(op, r) ==
    CASE op = "dailyCheckIn" -> "checkNodeStatus"
      [] op = "checkNodeStatus" -> IF r = "true" THEN "stopNode" ELSE "connectNode"
      [] op = "stopNode" -> "connectNode"
      [] op = "connectNode" -> "checkNodePoints"
      [] op = "checkNodePoints" -> "for"

\* makeRequest has returned: the rest of the operation, and run() up to the
\* next operation
OpFinish(op) ==
    /\ pc = op
    /\ rpc = "returned"
    /\ lastOp' = op
    /\ ret' = Continuation(op, result)
    /\ IF Continuation(op, result) = "throw"
       THEN /\ WalletFailed
            /\ UNCHANGED walletIdx
       ELSE /\ pc' = AfterOp(op, Continuation(op, result))
            /\ progress' = IF op = "checkNodePoints" THEN "success" ELSE progress
            /\ walletIdx' = IF op = "checkNodePoints" THEN walletIdx + 1 ELSE walletIdx
            /\ Commit([NoInvocation EXCEPT !.result = result])
    /\ UNCHANGED <<invocations, wallets, proxies, proxy, agent, exitCode, inflight>>

\* delay(5) of the catch block elapses: i++
Delay5Elapses ==
    /\ pc = "delay5"
    /\ pc' = "for"
    /\ walletIdx' = walletIdx + 1
    /\ Commit([Invocation EXCEPT !.timer = Zero])
    /\ UNCHANGED <<invocations, wallets, proxies, proxy, agent, progress, lastOp, ret, exitCode, inflight>>

\* delay(60 * 60) elapses: the next pass of while (true)
CycleDelayElapses ==
    /\ pc = "delay3600"
    /\ pc' = "for"
    /\ walletIdx' = 0
    /\ Commit([Invocation EXCEPT !.timer = Zero])
    /\ UNCHANGED <<invocations, wallets, proxies, proxy, agent, progress, lastOp, ret, exitCode, inflight>>

Next ==
    \/ Startup
    \/ ForWallet
    \/ \E op \in Ops : OpStart(op)
    \/ \E op \in Ops : OpFinish(op)
    \/ AxiosResolves
    \/ AxiosRejectsStatus
    \/ AxiosRejectsNoResponse
    \/ DelayElapses
    \/ Delay5Elapses
    \/ CycleDelayElapses

Spec == Init /\ [][Next]_vars

\* The program with its scheduling: the event loop runs every continuation
\* that is ready, every axios call settles (timeout: 60000) and every timer
\* fires
SpecFair == Init /\ [][Next]_vars /\ WF_vars(Next)

\* ------------------------------------------------ direct use of the executor
BackoffChoices == {0, 1, 700, 2000, 3000}

InitExec ==
    /\ wallets = <<>>
    /\ proxies = <<>>
    /\ pc = "direct"
    /\ walletIdx = 0
    /\ proxy = NullProxy
    /\ agent = "none"
    /\ progress = "none"
    /\ lastOp = "none"
    /\ ret = "none"
    /\ rpc = "idle"
    /\ retries \in 1..MaxRetries
    /\ backoffMs \in BackoffChoices
    /\ i = 0
    /\ status = NotSettled
    /\ timer = Zero
    /\ result = Null
    /\ delivered = Null
    /\ attempts = 0
    /\ errors = 0
    /\ waits = 0
    /\ kinds = "none"
    /\ exitCode = NotExited
    /\ inflight = EmptyBag
    /\ invocations = 0

\* RequestHandler.makeRequest(config, retries, backoffMs) is called
\* for the first time with the arguments chosen at the start, and again
\* with any arguments once the invocation before has returned
InvokeDirect ==
    /\ pc = "direct"
    /\ rpc \in {"idle", "returned"}
    /\ invocations < MaxInvocations
    /\ invocations' = invocations + 1
    /\ \E r \in (IF rpc = "idle" THEN {retries} ELSE 1..MaxRetries),
          b \in (IF rpc = "idle" THEN {backoffMs} ELSE BackoffChoices) :
         /\ Commit(EnterMakeRequest(r, b))
         /\ inflight' = AfterResume(EnterMakeRequest(r, b))
    /\ UNCHANGED runVars

NextExec ==
    \/ InvokeDirect
    \/ AxiosResolves
    \/ AxiosRejectsStatus
    \/ AxiosRejectsNoResponse
    \/ DelayElapses

SpecExec == InitExec /\ [][NextExec]_vars

\* The executor when every axios call settles and every timer fires
SpecExecFair == InitExec /\ [][NextExec]_vars /\ WF_vars(NextExec)

\* ------------------------------------------------- claims on the executor
\* the closed form baseBackoffMs * 3^(k-1) / 2^(k-1)
ExpectedWait(b, k) == Norm([m |-> b, e2 |-> 0 - (k - 1), e3 |-> k - 1, e5 |-> 0])

\* every attempt so far was rejected, all of them with status 500
AllRejected(kind) == kinds = kind /\ errors = attempts

\* C1: when every attempt is rejected with HTTP status 500, makeRequest
\* returns null after exactly retries attempts and retries - 1 waits.
C1_Always500 ==
    (rpc = "returned" /\ AllRejected("all500")) =>
        (attempts = retries /\ waits = retries - 1 /\ result = Null)

C1_Witness ==
    rpc = "returned" /\ AllRejected("all500") /\ retries >= 3 /\ result = Null

C3_AlwaysOther ==
    /\ (rpc = "delay" /\ AllRejected("allOther")) => timer = FromInt(2000)
    /\ (rpc = "returned" /\ AllRejected("allOther")) =>
           (attempts = retries /\ waits = retries - 1 /\ result = Null)

C3_Witness ==
    /\ rpc = "returned" /\ AllRejected("allOther")
    /\ retries >= 3 /\ waits = retries - 1 /\ backoffMs # 2000

\* C4: when attempt j is delivered after j - 1 rejected attempts,
\* makeRequest has returned that response, after exactly j attempts.
C4_ReturnsDelivered ==
    delivered # Null =>
        /\ rpc = "returned"
        /\ result = delivered
        /\ attempts = errors + 1
        /\ attempts <= retries

C4_Witness ==
    /\ rpc = "returned" /\ result = delivered /\ delivered # Null
    /\ result.status = 200 /\ kinds = "allOther" /\ errors = 1 /\ attempts = 2

\* C5: with retries = 1 there is one attempt and no wait, whatever its
\* outcome.
C5_SingleAttempt ==
    retries = 1 =>
        /\ attempts <= 1
        /\ waits = 0
        /\ rpc # "delay"
        /\ rpc = "returned" => attempts = 1

C5_Witness ==
    retries = 1 /\ rpc = "returned" /\ attempts = 1 /\ errors = 1 /\ waits = 0

\* C6: an exchange that ends with a status below 500, 4xx included, is
\* returned at once: no wait, no retry.
C6_Below500Delivered ==
    (status >= 0 /\ status < 500) =>
        /\ rpc = "returned"
        /\ result # Null
        /\ result.status = status
        /\ timer = Zero
        /\ waits = errors
        /\ attempts = errors + 1

C6_Witness ==
    status = 404 /\ rpc = "returned" /\ result # Null /\ result.status = 404

\* C7: an outcome is returned only with a response of status < 500 or after
\* exactly retries attempts that were all rejected; never more than retries
\* attempts.
C7_OutcomeInvariant ==
    /\ attempts <= retries
    /\ rpc = "returned" =>
          \/ result # Null /\ result.status < 500
          \/ result = Null /\ attempts = retries /\ errors = retries

C7_Witness ==
    rpc = "returned" /\ result = Null /\ kinds = "mixed" /\ attempts = retries

\* ------------------------------------------ claims on the wallet session
\* C8: checkNodeStatus returns true exactly when the request was delivered
\* and the body's nested startTimestamp holds a value, and false in every
\* other case: field absent, field null, nested object missing, failure.
C8_NodeStatusIffTimestamp ==
    lastOp = "checkNodeStatus" =>
        /\ ret \in {"true", "false"}
        /\ ret = "true" <=>
             /\ result # Null
             /\ result.data.present
             /\ result.data.nested = "object"
             /\ result.data.startTimestamp = "value"

\* C9: every operation of the wallet session returns a boolean; none
\* raises to its caller.
C9_OperationsNeverThrow ==
    lastOp \in Ops => ret \in {"true", "false"}

\* -------------------------------------------------------- claims on run()
\* C10: while wallet i is processed and proxy.txt has P > 0 lines, its
\* proxy is line i mod P; 2 wallets with 1 line both get line 0, 3 wallets
\* with 2 lines get lines 0, 1, 0.
C10_ProxyRoundRobin ==
    (pc \in Ops /\ Len(proxies) > 0) =>
        /\ proxy = proxies[(walletIdx % Len(proxies)) + 1]
        /\ (Len(wallets) = 2 /\ Len(proxies) = 1) => proxy = proxies[1]
        /\ (Len(wallets) = 3 /\ Len(proxies) = 2) => proxy = proxies[<<1, 2, 1>>[walletIdx + 1]]

C10_Witness ==
    /\ pc = "checkNodePoints" /\ rpc = "request"
    /\ Len(wallets) = 3 /\ Len(proxies) = 2
    /\ walletIdx = 2 /\ proxy = proxies[1]

\* C11: with an empty wallet list run() never enters the loop: it exits
\* with a non-zero status, and no HTTP request is issued before or after.
C11_EmptyWalletsExit ==
    Len(wallets) = 0 =>
        /\ pc \in {"start", "exit"}
        /\ pc = "exit" => exitCode # 0 /\ exitCode # NotExited
        /\ pc = "start" => exitCode = NotExited
        /\ rpc = "idle" /\ attempts = 0 /\ inflight = EmptyBag

C11_Witness ==
    Len(wallets) = 0 /\ pc = "exit" /\ exitCode = 1 /\ attempts = 0

\* C12: with an empty proxy list and a non-empty wallet list startup enters
\* the loop without exiting, and every wallet of every cycle is processed
\* with no proxy and no agent.
C12_EmptyProxiesNotFatal ==
    /\ []((Len(proxies) = 0 /\ pc \in Ops \cup {"delay5"}) =>
             proxy = NullProxy /\ agent = "none")
    /\ [][(pc = "start" /\ Len(proxies) = 0 /\ Len(wallets) > 0) =>
             pc' = "for" /\ exitCode' = NotExited]_vars

C12_Witness ==
    /\ Len(proxies) = 0 /\ Len(wallets) = 2
    /\ pc = "checkNodePoints" /\ rpc = "request" /\ walletIdx = 1
    /\ proxy = NullProxy /\ agent = "none"

\* the schemes the spec names
SupportedScheme(p) ==
    \/ startsWith(p, Chars("http://"))
    \/ startsWith(p, Chars("socks4://"))
    \/ startsWith(p, Chars("socks5://"))

\* C13: a wallet whose proxy line begins with none of http://, socks4://,
\* socks5:// has no proxy agent and its sequence runs all the same; a line
\* with one of the schemes has its agent, each wallet keeps the line of its
\* own slot, and only a bad key fails the construction of the session.
C13_UnsupportedSchemeNoAgent ==
    /\ (pc \in Ops /\ proxy # NullProxy) =>
          /\ proxy = proxies[(walletIdx % Len(proxies)) + 1]
          /\ ~SupportedScheme(proxy) => agent = "null"
          /\ SupportedScheme(proxy) => agent \in {"HttpsProxyAgent", "SocksProxyAgent"}
    /\ (pc = "delay5" /\ lastOp = "none") => wallets[walletIdx + 1] = "badKey"

C13_Witness ==
    /\ pc = "checkNodePoints" /\ rpc = "request" /\ walletIdx = 1
    /\ proxy = ProxyFile[2] /\ ~SupportedScheme(proxy) /\ agent = "null"

C15_ExceptionSkipsToNextWallet ==
    [][ /\ ((ret' = "throw" /\ ret # "throw") \/
            (pc = "for" /\ walletIdx < Len(wallets) /\ pc' = "delay5")) =>
             /\ pc' = "delay5" /\ progress' = "failed"
             /\ walletIdx' = walletIdx
             /\ timer' = FromInt(5000)
             /\ rpc' = "idle" /\ inflight' = EmptyBag
             /\ exitCode' = NotExited
        /\ pc = "delay5" =>
             /\ pc' = "for" /\ walletIdx' = walletIdx + 1
             /\ rpc' = "idle" /\ inflight' = EmptyBag
             /\ exitCode' = NotExited
        /\ (pc = "for" /\ walletIdx >= Len(wallets)) =>
             pc' = "delay3600" /\ exitCode' = NotExited
      ]_vars

C15_Witness ==
    /\ pc = "delay5" /\ ret = "throw" /\ lastOp = "checkNodeStatus"
    /\ progress = "failed" /\ walletIdx = 0 /\ Len(wallets) = 2

\* C16: the wait of 3600 seconds is followed by a new cycle at wallet 0, and
\* when every HTTP attempt and every wait completes, every cycle ends and
\* every wallet is taken up again and again.
C16_EveryWalletInfinitelyOften ==
    /\ [][pc = "delay3600" => pc' = "for" /\ walletIdx' = 0]_vars
    /\ Len(wallets) > 0 => []<>(pc = "delay3600")
    /\ \A k \in 1..MaxWallets :
         Len(wallets) >= k => []<>(pc = "for" /\ walletIdx = k - 1)

\* C17: once the loop is entered nothing reaches the fatal handler: the
\* process exits only when the wallet list was empty at startup.
C17_NoExitAfterLoopEntry ==
    pc = "exit" => Len(wallets) = 0

\* C18: at most one HTTP request is in flight, and it belongs to the one
\* operation of the one wallet run() is processing; between wallets, in the
\* waits and after exit nothing is in flight.
C18_OneRequestInFlight ==
    /\ BagCardinality(inflight) <= 1
    /\ \A r \in BagToSet(inflight) :
         /\ r.wallet = walletIdx /\ r.op = pc
         /\ rpc = "request"
    /\ rpc = "request" => inflight # EmptyBag
    /\ rpc # "idle" => pc \in Ops /\ progress = "processing"
    /\ pc \notin Ops => inflight = EmptyBag

C18_Witness ==
    /\ BagCardinality(inflight) = 1
    /\ pc = "connectNode" /\ walletIdx = 1 /\ attempts = 2

\* C19: every operation run() invokes goes through the executor with 30
\* attempts and a base backoff of 2000 ms, and no invocation makes more
\* than 30 HTTP attempts.
C19_ThirtyAttempts ==
    /\ (pc \in Ops /\ rpc \in {"request", "delay"}) =>
          retries = 30 /\ backoffMs = 2000
    /\ attempts <= 30

C19_Witness ==
    pc = "checkNodePoints" /\ rpc = "request" /\ attempts = 30 /\ retries = 30

\* C20: dailyCheckIn returns true for every delivered body with statusCode
\* 405, with or without an extractable cooldown; for another delivered
\* response true exactly when a body is present; false when the executor
\* failed.
C20_DailyCheckInResult ==
    (lastOp = "dailyCheckIn" /\ pc = "checkNodeStatus" /\ rpc = "idle") =>
        ret = IF result = Null THEN "false"
              ELSE IF ~result.data.present THEN "false"
              ELSE "true"

\* the step that follows each operation whose result run() does not read
StepAfter(op) ==
    CASE op = "dailyCheckIn" -> "checkNodeStatus"
      [] op = "stopNode" -> "connectNode"
      [] op = "connectNode" -> "checkNodePoints"
      [] op = "checkNodePoints" -> "for"

\* C21: whatever dailyCheckIn, stopNode, connectNode and checkNodePoints
\* return, true or false, run() goes on with the same next step; only the
\* result of checkNodeStatus chooses, between stopNode and connectNode.
C21_ResultsIgnored ==
    (lastOp \in Ops /\ ret \in {"true", "false"}) =>
        pc = IF lastOp = "checkNodeStatus"
             THEN (IF ret = "true" THEN "stopNode" ELSE "connectNode")
             ELSE StepAfter(lastOp)

C21_Witness ==
    /\ lastOp = "connectNode" /\ ret = "false" /\ result # Null
    /\ pc = "checkNodePoints" /\ progress = "processing"

\* C22: a rejection with status exactly 500 waits backoffMs * 1.5^(a-1);
\* a rejection with another status or with none waits 2000 ms when the
\* attempt is not the last, and on the last attempt returns null with no
\* further wait.
C22_BranchByStatus ==
    /\ (rpc = "delay" /\ status = 500) =>
          attempts < retries /\ timer = ExpectedWait(backoffMs, attempts)
    /\ (rpc = "delay" /\ status # 500) =>
          attempts < retries /\ timer = FromInt(2000)
    /\ (rpc = "returned" /\ result = Null /\ status \notin {500, NotSettled}) =>
          attempts = retries /\ waits = retries - 1 /\ timer = Zero

C22_Witness ==
    /\ rpc = "delay" /\ status = 503 /\ kinds = "mixed"
    /\ attempts = 2 /\ backoffMs = 700 /\ timer = FromInt(2000)

\* C23: when every axios call settles and every timer fires, an invocation
\* of makeRequest returns; inside an invocation every retry adds one to the
\* attempt counter, which never goes down.
C23_InvocationReturns ==
    /\ (rpc = "request") ~> (rpc = "returned")
    /\ [][ /\ (rpc = "delay" /\ rpc' = "request") =>
                i' = i + 1 /\ attempts' = attempts + 1
           /\ rpc \in {"request", "delay"} =>
                i' >= i /\ attempts' >= attempts /\ retries' = retries
         ]_vars

C23_Witness ==
    /\ rpc = "returned" /\ result = Null /\ invocations = 1
    /\ retries = MaxRetries /\ attempts = retries /\ i = retries - 1

\* C24: every invocation of makeRequest starts afresh, whatever the one
\* before it used up: its first attempt is attempt 1 with nothing waited,
\* and its first wait after a 500 is backoffMs.
C24_InvocationsIndependent ==
    /\ [][(rpc \in {"idle", "returned"} /\ rpc' = "request") =>
             /\ attempts' = 1 /\ i' = 0
             /\ errors' = 0 /\ waits' = 0 /\ kinds' = "none"
             /\ timer' = Zero]_vars
    /\ []((rpc = "delay" /\ status = 500 /\ attempts = 1) =>
             timer = FromInt(backoffMs))

C24_Witness ==
    /\ invocations = 2 /\ rpc = "delay" /\ status = 500 /\ attempts = 1
    /\ backoffMs = 700 /\ timer = FromInt(700)

\* C25: when rejections of both kinds are mixed in an invocation, the wait
\* after attempt a rejected with 500 is backoffMs * 1.5^(a-1) with a the
\* number of the attempt, the attempts rejected otherwise included.
C25_ExponentCountsAllAttempts ==
    (rpc = "delay" /\ status = 500 /\ kinds = "mixed") =>
        /\ attempts = errors
        /\ timer = ExpectedWait(backoffMs, attempts)

C25_Witness ==
    /\ rpc = "delay" /\ status = 500 /\ kinds = "mixed"
    /\ attempts = 2 /\ backoffMs = 2000 /\ timer = FromInt(3000)

====
